---- MODULE Spec2Model ----
(***************************************************************************)
(* The backup notebook of powerfox-api (src/src/backup.ipynb): the cells  *)
(* that check the credentials, build the client and compute the dates,     *)
(* the day fetcher backup_date with its bounded retry loop,                *)
(* append_to_json_file, and the driver backup() with its batching policy.  *)
(*                                                                         *)
(* A calendar day is its ordinal relative to EpochDate (Python's date      *)
(* arithmetic works on ordinals); isoformat turns an ordinal into the      *)
(* ten characters YYYY-MM-DD.  The settings BATCH_APPEND and RETRIES are   *)
(* the notebook's module-level settings; a run starts with any positive    *)
(* value of each up to MaxBatchAppend and MaxRetries.                      *)
(***************************************************************************)
EXTENDS Integers, Sequences, FiniteSets, TLC

VARIABLES
    USERNAME,       \* setting: the account's user name
    PASSWORD,       \* setting: the account's password
    FILENAME,       \* the second the timestamp in FILENAME names; 0: not set
    api,            \* the PowerfoxAPI client, once constructed
    devices_requested, \* api.get_devices() has been called
    run,            \* executions of the notebook's last cell, backup()
    snapshot,       \* the output file as it was when the flush was entered
    calls,          \* calls of api.get_historical_data_raw in this run
    writers,        \* the runs that wrote a line into the output file
    BATCH_APPEND,   \* setting: flush threshold
    RETRIES,        \* setting: attempts per day
    start,          \* device.account_associated_since.date()
    end,            \* date.today()
    date_range,     \* backup()'s date_range argument
    pc,             \* where the run is
    i,              \* number of days the for loop has taken from date_range
    day,            \* the for loop's variable
    retries,        \* backup_date's local counter
    data,           \* what backup_date returned
    batch,          \* dict[date, JSON], in insertion order
    ret,            \* who called append_to_json_file: "loop" or "final"
    k,              \* items of batch.items() already written by this flush
    file,           \* the lines of the output file
    exists,         \* the output file exists on disk
    interrupted,    \* the run was stopped from outside
    write_error,    \* an OSError was raised inside append_to_json_file
    invoked,        \* days backup_date was called with, in order
    attempts,       \* calls of api.get_historical_data_raw in this backup_date
    sleeps,         \* durations slept in this backup_date
    fetched,        \* <<day, payload>> of every call of the API that returned
    failed_log,     \* days of the "Failed to fetch data" lines printed
    opens,          \* calls of file.open("a")
    flushes         \* lines appended by each completed append_to_json_file

vars == <<USERNAME, PASSWORD, FILENAME, api, devices_requested, run, snapshot,
          calls, writers, BATCH_APPEND, RETRIES, start, end, date_range, pc, i, day, retries,
          data, batch, ret, k, file, exists, interrupted, write_error, invoked,
          attempts, sleeps, fetched, failed_log, opens, flushes>>

----------------------------------------------------------------------------
(* Bounds of the model. *)

MaxDays == 3

MaxFlushItems == 2

MaxFlushCalls == 2

MaxRuns == 2

MaxBatchAppend == 3

MaxRetries == 2

(* BACKOFF = 2 *)
BACKOFF == 2

----------------------------------------------------------------------------
(* Calendar: datetime.date as used by the notebook. *)

EpochDate == <<2024, 2, 28>>

IsLeap(y) == (y % 4 = 0 /\ y % 100 # 0) \/ y % 400 = 0

DaysInMonth(y, m) ==
    IF m = 2 THEN (IF IsLeap(y) THEN 29 ELSE 28)
    ELSE IF m \in {4, 6, 9, 11} THEN 30 ELSE 31

Tomorrow(ymd) ==
    LET y == ymd[1]
        m == ymd[2]
        d == ymd[3]
    IN  IF d < DaysInMonth(y, m) THEN <<y, m, d + 1>>
        ELSE IF m < 12 THEN <<y, m + 1, 1>>
        ELSE <<y + 1, 1, 1>>

RECURSIVE FromOrdinal(_)
FromOrdinal(n) == IF n <= 0 THEN EpochDate ELSE Tomorrow(FromOrdinal(n - 1))

Pad2(n) == <<(n \div 10) % 10, n % 10>>

Pad4(n) == <<(n \div 1000) % 10, (n \div 100) % 10>> \o Pad2(n)

(* day.isoformat(): "YYYY-MM-DD", digits as numbers, the dash as "-" *)
isoformat(n) ==
    LET ymd == FromOrdinal(n)
    IN  Pad4(ymd[1]) \o <<"-">> \o Pad2(ymd[2]) \o <<"-">> \o Pad2(ymd[3])

(* start + timedelta(days=n) *)
PlusDays(d, n) == d + n

(* (end - start).days *)
DaysBetween(s, e) == e - s

(* range(n + 1) *)
RangeInclusive(n) == IF n < 0 THEN <<>> ELSE [x \in 1..(n + 1) |-> x - 1]

(* range(n): empty when n <= 0 *)
Range(n) == IF n <= 0 THEN <<>> ELSE [x \in 1..n |-> x - 1]

(* dates = [start + timedelta(days=day) for day in range((end - start).days)] *)
dates(s, e) ==
    LET r == Range(DaysBetween(s, e))
    IN  [x \in 1..Len(r) |-> PlusDays(s, r[x])]

----------------------------------------------------------------------------
(* JSON payloads and the dict that is the batch. *)

None == "None"

(* what api.get_historical_data_raw can return: any JSON value, null included *)
JSON == {None, "{}"}

NoDay == -1

Keys(b) == {b[x][1] : x \in 1..Len(b)}

(* a dict that puts a new key first *)
DictSetFront(b, d, v) ==
    IF d \in Keys(b)
    THEN [x \in 1..Len(b) |-> IF b[x][1] = d THEN <<d, v>> ELSE b[x]]
    ELSE <<<<d, v>>>> \o b

(* batch[day] = data: a new key goes last, an old key keeps its place *)
DictSet(b, d, v) ==
    IF d \in Keys(b)
    THEN [x \in 1..Len(b) |-> IF b[x][1] = d THEN <<d, v>> ELSE b[x]]
    ELSE Append(b, <<d, v>>)

(* dumps({"day": day.isoformat(), "data": data}) + "\n" *)
Line(item) == [day |-> isoformat(item[1]), data |-> item[2]]

(* file.open("w"): the contents go *)
OpenTruncate(contents) == <<>>

(* file.open("a"): the contents stay *)
OpenAppend(contents) == contents

(* assert USERNAME or PASSWORD *)
CredentialsEither(u, p) == u # "" \/ p # ""

(* assert USERNAME and PASSWORD *)
CredentialsGiven(u, p) == u # "" /\ p # ""

(* sleep(BACKOFF): the same pause after every failure *)
BackoffConstant(r) == BACKOFF

(* sleep(BACKOFF * retries): the seconds slept *)
Backoff(r) == BACKOFF * r

(* while retries <= RETRIES *)
MayRetryInclusive(r) == r <= RETRIES

(* while retries < RETRIES *)
MayRetry(r) == r < RETRIES

(* the check for None left out *)
IsNoDataNever(d) == FALSE

(* if data is None *)
IsNoData(d) == d = None

(* if len(batch) > BATCH_APPEND *)
ThresholdExceeded(b) == Len(b) > BATCH_APPEND

(* if len(batch) >= BATCH_APPEND *)
ThresholdReached(b) == Len(b) >= BATCH_APPEND

(* the remainder flushed only when it is a full batch *)
RemainingFull(b) == Len(b) >= BATCH_APPEND

(* the remainder flushed without looking at it *)
RemainingAlways(b) == TRUE

(* if len(batch) > 0 *)
Remaining(b) == Len(b) > 0

----------------------------------------------------------------------------

(* the locals of backup(), backup_date and append_to_json_file, and what
   one run has done, before the run *)
FreshRun ==
    /\ i = 0
    /\ day = NoDay
    /\ retries = 0
    /\ data = None
    /\ batch = <<>>
    /\ ret = "loop"
    /\ k = 0
    /\ interrupted = FALSE
    /\ write_error = FALSE
    /\ invoked = <<>>
    /\ attempts = 0
    /\ sleeps = <<>>
    /\ fetched = <<>>
    /\ failed_log = <<>>
    /\ opens = 0
    /\ flushes = <<>>
    /\ calls = 0

(* a kernel in which no cell has run yet *)
FreshKernel ==
    /\ FILENAME = 0
    /\ api = None
    /\ devices_requested = FALSE
    /\ start = NoDay
    /\ end = NoDay
    /\ date_range = <<>>
    /\ file = <<>>
    /\ exists = FALSE
    /\ snapshot = [file |-> <<>>, exists |-> FALSE]
    /\ writers = {}
    /\ run = 1
    /\ pc = "credentials"

Init ==
    /\ USERNAME \in {"", "user"}
    /\ PASSWORD \in {"", "secret"}
    /\ BATCH_APPEND \in 1..MaxBatchAppend
    /\ RETRIES \in 1..MaxRetries
    /\ FreshKernel
    /\ FreshRun

(* what the cells before backup() set, and what backup() leaves alone *)
Cells == <<USERNAME, PASSWORD, BATCH_APPEND, RETRIES, FILENAME, api,
           devices_requested, start, end, date_range, run>>

Settings == <<Cells, snapshot>>

Running == ~interrupted /\ pc \notin {"done", "failed", "config_error"}

(* assert USERNAME and PASSWORD, "Please provide your Powerfox credentials" *)
CheckCredentials ==
    /\ Running /\ pc = "credentials"
    /\ pc' = IF CredentialsGiven(USERNAME, PASSWORD) THEN "construct"
             ELSE "config_error"
    /\ UNCHANGED <<Settings, calls, writers, i, day, retries, data, batch, ret,
                   k, file, exists, interrupted, write_error, invoked,
                   attempts, sleeps, fetched, failed_log, opens, flushes>>

(* timestamp = datetime.now()...; FILENAME = Path(...); api = PowerfoxAPI(...):
   the clock is at the second of the last FILENAME or later, and a name
   not used before names a file that is not there *)
ConstructApi ==
    /\ Running /\ pc = "construct"
    /\ \E t \in {FILENAME, FILENAME + 1} :
        /\ t > 0
        /\ FILENAME' = t
        /\ file' = IF t = FILENAME THEN file ELSE <<>>
        /\ exists' = IF t = FILENAME THEN exists ELSE FALSE
        /\ writers' = IF t = FILENAME THEN writers ELSE {}
    /\ api' = "client"
    /\ pc' = "devices"
    /\ UNCHANGED <<USERNAME, PASSWORD, BATCH_APPEND, RETRIES,
                   devices_requested, start, end, date_range, run, snapshot,
                   calls, i, day, retries, data, batch, ret, k, interrupted,
                   write_error, invoked, attempts, sleeps, fetched,
                   failed_log, opens, flushes>>

(* devices = api.get_devices(); start = ...; end = date.today(); dates = [...];
   then the last cell calls backup() *)
GetDevices ==
    /\ Running /\ pc = "devices"
    /\ devices_requested' = TRUE
    /\ \E s \in 0..1, e \in 0..MaxDays :
        /\ start' = s
        /\ end' = e
        /\ date_range' = dates(s, e)
    /\ pc' = "loop"
    /\ UNCHANGED <<USERNAME, PASSWORD, BATCH_APPEND, RETRIES, FILENAME, api,
                   run, snapshot, calls, writers, i, day, retries, data,
                   batch, ret, k, file, exists, interrupted, write_error,
                   invoked, attempts, sleeps, fetched, failed_log, opens,
                   flushes>>

(* for day in date_range: data = backup_date(day) -> retries = 0 *)
NextDay ==
    /\ Running /\ pc = "loop" /\ i < Len(date_range)
    /\ i' = i + 1
    /\ day' = date_range[i + 1]
    /\ retries' = 0
    /\ attempts' = 0
    /\ sleeps' = <<>>
    /\ invoked' = Append(invoked, date_range[i + 1])
    /\ pc' = "attempt"
    /\ UNCHANGED <<Settings, calls, writers, data, batch, ret, k, file, exists, interrupted,
                   write_error, fetched, failed_log, opens, flushes>>

(* the loop is over: if len(batch) > 0: append_to_json_file(batch, file=file) *)
LoopEnd ==
    /\ Running /\ pc = "loop" /\ i = Len(date_range)
    /\ pc' = IF Remaining(batch) THEN "open" ELSE "done"
    /\ ret' = "final"
    /\ UNCHANGED <<Settings, calls, writers, i, day, retries, data, batch, k, file, exists,
                   interrupted, write_error, invoked, attempts, sleeps,
                   fetched, failed_log, opens, flushes>>

(* api.get_historical_data_raw returns; return hisotrical_data *)
FetchOk ==
    /\ Running /\ pc = "attempt" /\ MayRetry(retries)
    /\ \E p \in JSON :
        /\ data' = p
        /\ fetched' = Append(fetched, <<day, p>>)
    /\ attempts' = attempts + 1
    /\ pc' = "got"
    /\ calls' = calls + 1
    /\ UNCHANGED <<Settings, writers, i, day, retries, batch, ret, k, file, exists,
                   interrupted, write_error, invoked, sleeps, failed_log,
                   opens, flushes>>

(* api.get_historical_data_raw raises; print(...); retries += 1 *)
FetchRaise ==
    /\ Running /\ pc = "attempt" /\ MayRetry(retries)
    /\ attempts' = attempts + 1
    /\ retries' = retries + 1
    /\ pc' = "sleep"
    /\ calls' = calls + 1
    /\ UNCHANGED <<Settings, writers, i, day, data, batch, ret, k, file, exists,
                   interrupted, write_error, invoked, sleeps, fetched,
                   failed_log, opens, flushes>>

(* sleep(BACKOFF * retries) *)
Sleep ==
    /\ Running /\ pc = "sleep"
    /\ sleeps' = Append(sleeps, Backoff(retries))
    /\ pc' = "attempt"
    /\ UNCHANGED <<Settings, calls, writers, i, day, retries, data, batch, ret, k, file,
                   exists, interrupted, write_error, invoked, attempts,
                   fetched, failed_log, opens, flushes>>

(* the while loop ends; print("Failed to fetch ..."); the function returns None *)
GiveUp ==
    /\ Running /\ pc = "attempt" /\ ~MayRetry(retries)
    /\ failed_log' = Append(failed_log, day)
    /\ data' = None
    /\ pc' = "got"
    /\ UNCHANGED <<Settings, calls, writers, i, day, retries, batch, ret, k, file, exists,
                   interrupted, write_error, invoked, attempts, sleeps,
                   fetched, opens, flushes>>

(* if data is None: continue *)
Skip ==
    /\ Running /\ pc = "got" /\ IsNoData(data)
    /\ pc' = "loop"
    /\ UNCHANGED <<Settings, calls, writers, i, day, retries, data, batch, ret, k, file,
                   exists, interrupted, write_error, invoked, attempts,
                   sleeps, fetched, failed_log, opens, flushes>>

(* batch[day] = data; if len(batch) >= BATCH_APPEND: append_to_json_file(...) *)
Insert ==
    /\ Running /\ pc = "got" /\ ~IsNoData(data)
    /\ batch' = DictSet(batch, day, data)
    /\ pc' = IF ThresholdReached(DictSet(batch, day, data)) THEN "open" ELSE "loop"
    /\ ret' = "loop"
    /\ UNCHANGED <<Settings, calls, writers, i, day, retries, data, k, file, exists,
                   interrupted, write_error, invoked, attempts, sleeps,
                   fetched, failed_log, opens, flushes>>

(* with file.open("a") as f: the file is created when it is not there *)
FlushOpen ==
    /\ Running /\ pc = "open"
    /\ opens' = opens + 1
    /\ snapshot' = [file |-> file, exists |-> exists]
    /\ exists' = TRUE
    /\ file' = OpenAppend(file)
    /\ k' = 0
    /\ pc' = "write"
    /\ UNCHANGED <<Cells, calls, writers, i, day, retries, data, batch, ret, interrupted,
                   write_error, invoked, attempts, sleeps, fetched,
                   failed_log, flushes>>

(* file.open("a") raises OSError: nothing catches it *)
FlushOpenFails ==
    /\ Running /\ pc = "open"
    /\ opens' = opens + 1
    /\ snapshot' = [file |-> file, exists |-> exists]
    /\ write_error' = TRUE
    /\ pc' = "failed"
    /\ UNCHANGED <<Cells, calls, writers, i, day, retries, data, batch, ret, k, file,
                   exists, interrupted, invoked, attempts, sleeps, fetched,
                   failed_log, flushes>>

(* for day, data in batch.items(): f.write(dumps({...}) + "\n") *)
FlushWrite ==
    /\ Running /\ pc = "write" /\ k < Len(batch)
    /\ file' = Append(file, Line(batch[k + 1]))
    /\ k' = k + 1
    /\ writers' = writers \cup {run}
    /\ UNCHANGED <<Settings, calls, pc, i, day, retries, data, batch, ret, exists,
                   interrupted, write_error, invoked, attempts, sleeps,
                   fetched, failed_log, opens, flushes>>

(* f.write raises OSError and the flush swallows it: the loop goes on *)
FlushWriteSwallowed ==
    /\ Running /\ pc = "write" /\ k < Len(batch)
    /\ write_error' = TRUE
    /\ pc' = IF ret = "loop" THEN "reset" ELSE "done"
    /\ UNCHANGED <<Settings, calls, writers, i, day, retries, data, batch, ret, k, file,
                   exists, interrupted, invoked, attempts, sleeps, fetched,
                   failed_log, opens, flushes>>

(* f.write raises OSError: the with block closes f, nothing catches it *)
FlushWriteFails ==
    /\ Running /\ pc = "write" /\ k < Len(batch)
    /\ write_error' = TRUE
    /\ pc' = "failed"
    /\ UNCHANGED <<Settings, calls, writers, i, day, retries, data, batch, ret, k, file,
                   exists, interrupted, invoked, attempts, sleeps, fetched,
                   failed_log, opens, flushes>>

(* the for loop over batch.items() is over; the with block closes f *)
FlushClose ==
    /\ Running /\ pc = "write" /\ k = Len(batch)
    /\ flushes' = Append(flushes, k)
    /\ pc' = IF ret = "loop" THEN "reset" ELSE "done"
    /\ UNCHANGED <<Settings, calls, writers, i, day, retries, data, batch, ret, k, file,
                   exists, interrupted, write_error, invoked, attempts,
                   sleeps, fetched, failed_log, opens>>

(* the batch is not cleared after the flush *)
ResetKeeps ==
    /\ Running /\ pc = "reset"
    /\ pc' = "loop"
    /\ UNCHANGED <<Settings, calls, writers, i, day, retries, data, batch, ret, k, file,
                   exists, interrupted, write_error, invoked, attempts,
                   sleeps, fetched, failed_log, opens, flushes>>

(* batch = {} *)
Reset ==
    /\ Running /\ pc = "reset"
    /\ batch' = <<>>
    /\ pc' = "loop"
    /\ UNCHANGED <<Settings, calls, writers, i, day, retries, data, ret, k, file, exists,
                   interrupted, write_error, invoked, attempts, sleeps,
                   fetched, failed_log, opens, flushes>>

(* the run is stopped from outside, wherever it is *)
Interrupt ==
    /\ Running
    /\ interrupted' = TRUE
    /\ UNCHANGED <<Settings, calls, writers, pc, i, day, retries, data, batch, ret, k, file,
                   exists, write_error, invoked, attempts, sleeps, fetched,
                   failed_log, opens, flushes>>

Next ==
    \/ CheckCredentials
    \/ ConstructApi
    \/ GetDevices
    \/ NextDay
    \/ LoopEnd
    \/ FetchOk
    \/ FetchRaise
    \/ Sleep
    \/ GiveUp
    \/ Skip
    \/ Insert
    \/ FlushOpen
    \/ FlushOpenFails
    \/ FlushWrite
    \/ FlushWriteFails
    \/ FlushClose
    \/ Reset
    \/ Interrupt

Spec == Init /\ [][Next]_vars

(* One execution in which nothing goes wrong from outside: nobody stops the
   run and no open or write fails.  The notebook is one sequential program,
   so as long as every call of the API and every sleep returns it takes
   its next step. *)
NextLive ==
    \/ CheckCredentials
    \/ ConstructApi
    \/ GetDevices
    \/ NextDay
    \/ LoopEnd
    \/ FetchOk
    \/ FetchRaise
    \/ Sleep
    \/ GiveUp
    \/ Skip
    \/ Insert
    \/ FlushOpen
    \/ FlushWrite
    \/ FlushClose
    \/ Reset

SpecLive == Init /\ [][NextLive]_vars /\ WF_vars(NextLive)

----------------------------------------------------------------------------
(* append_to_json_file on its own: called with any small batch, the empty
   one included, on a file that is not there, is empty, or has a line. *)

FlushDays == 0..(MaxFlushItems - 1)

FlushBatches ==
    {b \in UNION {[1..n -> FlushDays \X JSON] : n \in 0..MaxFlushItems} :
        \A x, y \in 1..Len(b) : b[x][1] = b[y][1] => x = y}

OldLine == [day |-> isoformat(0), data |-> "{}"]

InitFlush ==
    /\ USERNAME = "user"
    /\ PASSWORD = "secret"
    /\ BATCH_APPEND = 1
    /\ RETRIES = 1
    /\ FILENAME = 1
    /\ api = "client"
    /\ devices_requested = TRUE
    /\ start = 0
    /\ end = 0
    /\ date_range = <<>>
    /\ run = 1
    /\ batch \in FlushBatches
    /\ \E f \in {<<>>, <<OldLine>>}, e \in BOOLEAN :
        /\ f # <<>> => e
        /\ file = f
        /\ exists = e
        /\ snapshot = [file |-> f, exists |-> e]
    /\ writers = {}
    /\ pc = "open"
    /\ ret = "final"
    /\ i = 0
    /\ day = NoDay
    /\ retries = 0
    /\ data = None
    /\ k = 0
    /\ interrupted = FALSE
    /\ write_error = FALSE
    /\ invoked = <<>>
    /\ attempts = 0
    /\ sleeps = <<>>
    /\ fetched = <<>>
    /\ failed_log = <<>>
    /\ opens = 0
    /\ flushes = <<>>
    /\ calls = 0

(* append_to_json_file(batch, file=file) once more, with the same batch *)
FlushAgain ==
    /\ ~interrupted /\ pc = "done" /\ opens < MaxFlushCalls
    /\ pc' = "open"
    /\ UNCHANGED <<Settings, calls, writers, i, day, retries, data, batch, ret,
                   k, file, exists, interrupted, write_error, invoked,
                   attempts, sleeps, fetched, failed_log, opens, flushes>>

NextFlush ==
    \/ FlushOpen
    \/ FlushOpenFails
    \/ FlushWrite
    \/ FlushWriteFails
    \/ FlushClose
    \/ FlushAgain

SpecFlush == InitFlush /\ [][NextFlush]_vars

----------------------------------------------------------------------------
(* One kernel, the notebook run more than once: the last cell executed
   again after backup() has ended, or all the cells executed again. *)

(* the cell "backup()" is executed again: FILENAME and dates are the ones
   the earlier cells left *)
RerunBackup ==
    /\ pc \in {"done", "failed"}
    /\ run < MaxRuns
    /\ run' = run + 1
    /\ pc' = "loop"
    /\ i' = 0
    /\ day' = NoDay
    /\ retries' = 0
    /\ data' = None
    /\ batch' = <<>>
    /\ ret' = "loop"
    /\ k' = 0
    /\ write_error' = FALSE
    /\ invoked' = <<>>
    /\ attempts' = 0
    /\ sleeps' = <<>>
    /\ fetched' = <<>>
    /\ failed_log' = <<>>
    /\ opens' = 0
    /\ flushes' = <<>>
    /\ calls' = 0
    /\ UNCHANGED <<USERNAME, PASSWORD, BATCH_APPEND, RETRIES, FILENAME, api,
                   devices_requested, start, end, date_range, snapshot,
                   writers, file, exists, interrupted>>

(* all cells are executed again, from the first *)
RerunNotebook ==
    /\ pc \in {"done", "failed"}
    /\ run < MaxRuns
    /\ run' = run + 1
    /\ pc' = "credentials"
    /\ i' = 0
    /\ day' = NoDay
    /\ retries' = 0
    /\ data' = None
    /\ batch' = <<>>
    /\ ret' = "loop"
    /\ k' = 0
    /\ write_error' = FALSE
    /\ invoked' = <<>>
    /\ attempts' = 0
    /\ sleeps' = <<>>
    /\ fetched' = <<>>
    /\ failed_log' = <<>>
    /\ opens' = 0
    /\ flushes' = <<>>
    /\ calls' = 0
    /\ UNCHANGED <<USERNAME, PASSWORD, BATCH_APPEND, RETRIES, FILENAME, api,
                   devices_requested, start, end, date_range, snapshot,
                   writers, file, exists, interrupted>>

NextRerun ==
    \/ Next
    \/ RerunBackup
    \/ RerunNotebook

SpecRerun == Init /\ [][NextRerun]_vars

----------------------------------------------------------------------------
(* What the run has established so far, read off the history variables. *)

IsPrefix(s, t) == Len(s) <= Len(t) /\ SubSeq(t, 1, Len(s)) = s

(* the API calls that returned something other than None, in order *)
Yielded == SelectSeq(fetched, LAMBDA e : e[2] # None)

(* the records those calls stand for, in the order the driver met them *)
ExpectedLines ==
    [x \in 1..Len(Yielded) |->
        [day |-> isoformat(Yielded[x][1]), data |-> Yielded[x][2]]]

LinesOfDay(d) == {j \in 1..Len(file) : file[j].day = isoformat(d)}

CeilDiv(n, t) == (n + t - 1) \div t

(* YYYY-MM-DD strings order as their text does *)
IsoLess(a, b) ==
    \E j \in 1..Len(a) :
        /\ \A m \in 1..(j - 1) : a[m] = b[m]
        /\ a[j] # b[j]
        /\ a[j] < b[j]

(* the file is a concatenation of whole batches: whole threshold-sized ones,
   and at the very end of the run the whole remainder *)
CompleteBatches ==
    /\ IsPrefix(file, ExpectedLines)
    /\ \/ Len(file) % BATCH_APPEND = 0
       \/ Len(file) = Len(ExpectedLines) /\ i = Len(date_range) /\ ret = "final"

----------------------------------------------------------------------------
(* C1: once backup() has returned, every day whose fetch succeeded has
   exactly one record in the file, with day the ISO form of the requested
   day and data the payload the API returned, whatever that payload is. *)
C1_EverySuccessfulFetchRecorded ==
    pc = "done" =>
        \A x \in 1..Len(fetched) :
            /\ Cardinality(LinesOfDay(fetched[x][1])) = 1
            /\ \A j \in LinesOfDay(fetched[x][1]) : file[j].data = fetched[x][2]

(* C2: backup_date is called once per day of the range, in order, never
   again for a day already attempted, and one call makes at most RETRIES
   calls of the API. *)
C2_OncePerDayBoundedAttempts ==
    /\ attempts <= RETRIES
    /\ Len(invoked) = i
    /\ invoked = SubSeq(date_range, 1, i)
    /\ \A x, y \in 1..Len(invoked) : invoked[x] = invoked[y] => x = y
    /\ pc = "done" => invoked = date_range

C2_Witness ==
    /\ pc = "done"
    /\ Len(date_range) >= 2
    /\ failed_log # <<>>
    /\ Yielded # <<>>
    /\ attempts = RETRIES
    /\ RETRIES >= 2

(* C3: a day whose RETRIES attempts all raised yields None, gets the
   "Failed to fetch" line once, never gets into the batch or the file, and
   the run goes on: it fails only on a write error and ends only after the
   last day. *)
C3_ExhaustedDaySkipped ==
    /\ \A x \in 1..Len(failed_log) :
        /\ \A y \in 1..Len(failed_log) : failed_log[y] = failed_log[x] => y = x
        /\ failed_log[x] \notin Keys(batch)
        /\ LinesOfDay(failed_log[x]) = {}
        /\ \A y \in 1..Len(fetched) : fetched[y][1] # failed_log[x]
    /\ (i > 0 /\ pc \notin {"attempt", "sleep"} /\ retries = RETRIES) =>
        /\ failed_log # <<>>
        /\ failed_log[Len(failed_log)] = day
        /\ pc = "got" => data = None
    /\ pc = "failed" => write_error
    /\ pc = "done" => i = Len(date_range)

C3_Witness ==
    /\ pc = "done"
    /\ failed_log # <<>>
    /\ \E x \in 1..Len(Yielded) :
        /\ Yielded[x][1] > failed_log[1]
        /\ LinesOfDay(Yielded[x][1]) # {}

(* C4: the batch never holds more than BATCH_APPEND entries; once it holds
   BATCH_APPEND the run is in the flush of that batch or its reset (or has
   failed in that flush), never at a fetch; and the loop flushes nothing
   but a full batch. *)
C4_BatchBounded ==
    /\ Len(batch) <= BATCH_APPEND
    /\ Len(batch) = BATCH_APPEND => pc \in {"open", "write", "reset", "failed"}
    /\ (pc = "failed" /\ ret = "loop") => write_error
    /\ (pc \in {"open", "write", "reset"} /\ ret = "loop") =>
        Len(batch) = BATCH_APPEND

C4_Witness ==
    /\ pc = "reset"
    /\ BATCH_APPEND >= 2
    /\ Len(batch) = BATCH_APPEND
    /\ i < Len(date_range)
    /\ flushes # <<>>

(* C5: with N data-yielding days and threshold T a completed run makes
   ceil(N/T) flushes, all of T records except that the last has N mod T
   when that is not zero, and the file ends with N lines. *)
C5_FlushCount ==
    pc = "done" =>
        LET N == Len(Yielded)
            T == BATCH_APPEND
        IN  /\ Len(flushes) = CeilDiv(N, T)
            /\ opens = Len(flushes)
            /\ \A x \in 1..Len(flushes) :
                flushes[x] = IF x < Len(flushes) \/ N % T = 0 THEN T ELSE N % T
            /\ Len(file) = N

C5_Witness ==
    /\ pc = "done"
    /\ BATCH_APPEND >= 2
    /\ Len(flushes) = 2
    /\ flushes[1] = BATCH_APPEND
    /\ flushes[2] < BATCH_APPEND
    /\ Len(file) = Len(date_range)

(* C6: append_to_json_file is never entered with an empty batch, and as
   long as no day has yielded data (an empty range included) there has
   been no flush and the file has been neither opened nor created. *)
C6_NoEmptyFlush ==
    /\ pc \in {"open", "write"} => Len(batch) > 0
    /\ Yielded = <<>> =>
        /\ opens = 0
        /\ ~exists
        /\ flushes = <<>>
        /\ file = <<>>
        /\ pc \notin {"open", "write", "reset", "failed"}

C6_Witness ==
    /\ pc = "done"
    /\ Len(date_range) >= 2
    /\ failed_log # <<>>
    /\ fetched # <<>>
    /\ Yielded = <<>>
    /\ ~exists

(* C7: for a range in ascending order the day values of the file are
   strictly ascending at every point of the run, within a flush and across
   flushes. *)
C7_FileAscending ==
    (\A x, y \in 1..Len(date_range) : x < y => date_range[x] < date_range[y]) =>
        \A x, y \in 1..Len(file) : x < y => IsoLess(file[x].day, file[y].day)

C7_Witness ==
    /\ Len(flushes) >= 1
    /\ pc = "write"
    /\ k >= 1
    /\ Len(file) >= 3

(* C8: every step leaves the earlier file contents as a prefix of the
   later ones, and only a record write of a flush changes the file, by
   adding one line at the end. *)
C8_AppendOnly ==
    [][/\ IsPrefix(file, file')
       /\ file' # file =>
            /\ pc = "write"
            /\ Len(file') = Len(file) + 1
       /\ exists => exists']_vars

C8_Witness ==
    /\ Len(flushes) >= 1
    /\ pc = "write"
    /\ k >= 1
    /\ Len(file) > k
    /\ opens >= 2

(* C9 as stated: wherever the run is interrupted, a flush in progress
   included, the file holds whole batches only. *)
C9_InterruptLeavesWholeBatches ==
    interrupted => CompleteBatches

(* C9 as amended: the file is always a prefix of the records fetched so
   far, in order; interrupted anywhere but between the record writes of a
   flush it holds whole batches only; interrupted between two record writes
   it holds the whole batches and the first k records of the one being
   flushed. *)
C9_InterruptOutsideWrites ==
    /\ IsPrefix(file, ExpectedLines)
    /\ (interrupted /\ pc # "write") => CompleteBatches
    /\ (interrupted /\ pc = "write") =>
        /\ k <= Len(batch)
        /\ Len(file) >= k
        /\ Len(file) - k = BATCH_APPEND * Len(flushes)
        /\ \A x \in 1..k : file[Len(file) - k + x] = Line(batch[x])

C9_Witness ==
    /\ interrupted
    /\ pc = "write"
    /\ 0 < k
    /\ k < Len(batch)
    /\ i < Len(date_range)

(* C10: an error raised by the open or a write of a flush is not caught:
   the run is then failed, and from then on no day is fetched, nothing is
   slept, nothing more is opened or written and no batch is reset. *)
C10_WriteFailureIsFatal ==
    [][/\ write_error' => pc' = "failed"
       /\ write_error =>
            UNCHANGED <<pc, i, invoked, attempts, sleeps, fetched, opens,
                        file, flushes, batch>>]_vars

C10_Witness ==
    /\ write_error
    /\ pc = "failed"
    /\ k >= 1
    /\ i < Len(date_range)
    /\ flushes # <<>>

----------------------------------------------------------------------------
(* The days whose record has been handed to the batch: the data-yielding
   fetches, but for the one backup() has received and not yet inserted. *)
Inserted ==
    IF pc = "got" /\ ~IsNoData(data)
    THEN SubSeq(Yielded, 1, Len(Yielded) - 1)
    ELSE Yielded

InsertedDays == {isoformat(Inserted[x][1]) : x \in 1..Len(Inserted)}

FileDays == {file[j].day : j \in 1..Len(file)}

BatchDays == {isoformat(d) : d \in Keys(batch)}

(* file and batch hold the inserted days between them, none of them twice *)
Partition ==
    /\ FileDays \cap BatchDays = {}
    /\ FileDays \cup BatchDays = InsertedDays
    /\ Len(file) + Len(batch) = Len(Inserted)

(* C11: the x-th sleep of one backup_date lasts BACKOFF * x seconds, and a
   day that succeeds on attempt m after m - 1 failures has slept exactly
   m - 1 times and hands back the payload of that attempt. *)
C11_LinearBackoff ==
    /\ \A x \in 1..Len(sleeps) : sleeps[x] = BACKOFF * x
    /\ pc = "sleep" => Len(sleeps) = retries - 1 /\ attempts = retries
    /\ (pc = "got" /\ attempts = retries + 1) =>
        /\ attempts <= RETRIES
        /\ Len(sleeps) = attempts - 1
        /\ fetched # <<>>
        /\ fetched[Len(fetched)] = <<day, data>>

C11_Witness ==
    /\ pc = "got"
    /\ RETRIES >= 2
    /\ attempts = RETRIES
    /\ retries = RETRIES - 1
    /\ Len(sleeps) = RETRIES - 1
    /\ data # None

(* C12: with USERNAME or PASSWORD empty the script stops at the assert:
   no client is constructed, no device list requested, no day fetched. *)
C12_NoNetworkWithoutCredentials ==
    (USERNAME = "" \/ PASSWORD = "") =>
        /\ pc \in {"credentials", "config_error"}
        /\ api = None
        /\ FILENAME = 0
        /\ ~devices_requested
        /\ calls = 0
        /\ invoked = <<>>
        /\ ~exists

C12_Witness ==
    /\ pc = "config_error"
    /\ USERNAME # ""
    /\ PASSWORD = ""

(* C13: a sleep of backup_date is begun only when another attempt for the
   same day will follow it: never after the RETRIES-th failed attempt. *)
C13_SleepOnlyBeforeRetry ==
    /\ pc = "sleep" => retries < RETRIES
    /\ Len(sleeps) < RETRIES

(* C15 as stated: at every point of backup() outside a flush, the days in
   the file and the days in the batch are disjoint and together are the
   data-yielding days processed so far. *)
C15_FileAndBatchPartition ==
    pc \in {"loop", "attempt", "sleep", "got", "open", "reset"} => Partition

(* C15 as amended: the same at every point of backup() that is neither
   inside a flush nor between a flush of the loop and the reset that
   follows it; at that point the flushed batch is still in the batch, so
   every day of the batch is in the file as well. *)
C15_PartitionButBeforeReset ==
    /\ pc \in {"loop", "attempt", "sleep", "got", "open"} => Partition
    /\ pc = "reset" =>
        /\ batch # <<>>
        /\ BatchDays \subseteq FileDays
        /\ FileDays = InsertedDays
        /\ Len(file) = Len(Inserted)

C15_Witness ==
    /\ pc = "loop"
    /\ i = Len(date_range)
    /\ Len(file) >= 2
    /\ Len(batch) >= 1

(* C17: the default range runs from the association date to the day
   before today in one-day steps: (end - start).days days when start is
   before end, none otherwise, ascending and without repeats. *)
C17_DefaultDateRange ==
    devices_requested =>
        /\ Len(date_range) = IF start < end THEN end - start ELSE 0
        /\ start >= end => date_range = <<>>
        /\ date_range # <<>> =>
            /\ FromOrdinal(date_range[1]) = FromOrdinal(start)
            /\ Tomorrow(FromOrdinal(date_range[Len(date_range)])) =
                    FromOrdinal(end)
        /\ \A x \in 1..(Len(date_range) - 1) :
            FromOrdinal(date_range[x + 1]) = Tomorrow(FromOrdinal(date_range[x]))
        /\ \A x, y \in 1..Len(date_range) :
            x < y => IsoLess(isoformat(date_range[x]), isoformat(date_range[y]))

C17_Witness ==
    /\ pc = "loop"
    /\ i = 0
    /\ start = 0
    /\ Len(date_range) >= 3
    /\ FromOrdinal(date_range[3])[2] = 3

(* C14: for every range and every pattern of successes and failures
   backup() returns; it has then called the API at most
   len(date_range) * RETRIES times, has taken the last day, and every
   fetched record is in the file. *)
C14_Terminates ==
    /\ [](calls <= Len(date_range) * RETRIES)
    /\ [](pc = "done" => i = Len(date_range) /\ file = ExpectedLines)
    /\ (pc = "loop" ~> pc = "done")

C14_Witness ==
    /\ pc = "done"
    /\ Len(date_range) >= 2
    /\ RETRIES >= 2
    /\ calls = Len(date_range) * RETRIES
    /\ failed_log # <<>>
    /\ Len(flushes) >= 1
    /\ ret = "final"
    /\ Len(file) > flushes[1]

(* C16 as stated: a flush of an empty batch changes nothing: no line is
   written, the contents stay, and no file is created. *)
C16_EmptyFlushIsNoOp ==
    (batch = <<>> /\ pc \in {"write", "done"}) =>
        /\ file = snapshot.file
        /\ exists = snapshot.exists

(* C16 as amended: a flush of an empty batch writes no line and leaves the
   contents as they were, but its open creates the file when it was not
   there; from the second such flush on nothing changes at all. *)
C16_EmptyFlushOnlyCreates ==
    (batch = <<>> /\ pc \in {"write", "done"}) =>
        /\ file = snapshot.file
        /\ exists
        /\ \A x \in 1..Len(flushes) : flushes[x] = 0
        /\ writers = {}
        /\ opens >= 2 => snapshot.exists

C16_Witness ==
    /\ batch = <<>>
    /\ pc = "done"
    /\ opens = 2
    /\ Len(flushes) = 2
    /\ file = <<OldLine>>

(* C18: a rerun writes to a new output file: no file gets lines from two
   runs, and no file holds the same day twice. *)
C18_RerunWritesNewFile ==
    /\ Cardinality(writers) <= 1
    /\ \A x, y \in 1..Len(file) : file[x].day = file[y].day => x = y

====
